---------------------------- MODULE Spec2Model ----------------------------
(***************************************************************************)
(* A model of the task orchestration core of janis-runner:                 *)
(*   - TaskManager (src/shepherd/management/taskmanager.py): the resumable *)
(*     prepare -> submit -> wait -> save-metadata -> copy-outputs state    *)
(*     machine over the persisted Progress Record, statement by statement, *)
(*     so that an interruption can fall between any two statements;        *)
(*   - Shell and ShellLogger (src/janis_assistant/engines/shell/main.py):  *)
(*     the local-process engine and the thread that tails the process.     *)
(* Spec is the orchestrator over an engine seen through the Engine         *)
(* interface; ShellSpec is the local-process engine with its supervisor.   *)
(***************************************************************************)
EXTENDS Integers, Sequences, FiniteSets, TLC

VARIABLES
    \* ---- the orchestrator (TaskManager) and what it persists
    engineKind,     \* type of environment.engine: "cromwell" or "shell"
    validating,     \* validation_requirements is not None
    progress,       \* Progress Record: ProgressKeys -> completed flag
    info,           \* Progress Record: InfoKeys -> value
    pc,             \* the statement the orchestrator process is at
    engine_tid,     \* TaskManager._engine_tid (in memory, per process)
    outputs,        \* copy_outputs_if_required: the outputs still to stage
    wfFiles,        \* translated workflow files on disk
    metadataFile,   \* metadata/metadata.json was written
    copied,         \* the filescheme.cp_from calls performed
    fetchedFinal,   \* wait_if_required fetched a terminal status
    runsStarted,    \* orchestrator runs begun
    run,            \* how the current (or last) run was entered
    runsCompleted,  \* per entry, the runs that reached the end of resume_if_possible
    abortRet,       \* what TaskManager.abort returned last
    outcome,        \* how the current (or last) run ended, "running" until then
    wf_evaluate,    \* from_janis: the workflow prepare returned (line 79)
    startArgs,      \* the paths Engine.start_from_paths was last called with
    metaFetches,    \* calls of self.metadata() made by wait_if_required in this run
    \* ---- the engine, as the orchestrator sees it
    startCount,     \* calls of Engine.start_from_paths
    \* ---- the engine's record of the task (Shell.taskmeta): status, outputs
    taskmeta,
    \* ---- the local process and its supervisor (ShellLogger)
    transcript,     \* the writes the process makes, <<stream, line>>, in order
    program,        \* the writes the process has still to make
    stdoutPipe,     \* lines written to standard output and not yet read
    stderrPipe,     \* lines written to standard error and not yet read
    process,        \* "running" or "exited" (poll() is not None)
    lpc,            \* where ShellLogger.run is
    logger,         \* ShellLogger's fields: outputs, has_error, should_terminate, rc
    readOut,        \* lines of standard output the supervisor has read
    readErr,        \* lines of standard error the supervisor has read
    exitCalls,      \* the statuses the exit callback was called with
    logBuf,         \* lines written to the log file and not yet flushed
    logFile,        \* lines of the log file that were flushed and fsynced
    terminateRet,   \* what Shell.terminate_task returned last
    terminateFrom   \* the status it found

orchVars == <<engineKind, validating, progress, info, pc, engine_tid, outputs,
              wfFiles, metadataFile, copied, fetchedFinal, runsStarted, run,
              runsCompleted, abortRet, outcome, wf_evaluate, startArgs,
              metaFetches, startCount>>

shellVars == <<transcript, program, stdoutPipe, stderrPipe, process, lpc,
               logger, readOut, readErr, exitCalls, logBuf, logFile,
               terminateRet, terminateFrom>>

vars == <<orchVars, taskmeta, shellVars>>

---------------------------------------------------------------------------
\* Bounds of the model: the runs of the orchestrator against one output root,
\* and the turns of the polling loop of one run
MaxRuns == 3
MaxPolls == 2

None == "None"

\* TaskStatus
PROCESSING == "processing"
COMPLETED == "completed"
FAILED == "failed"
ABORTED == "aborted"

FINAL_STATES == {COMPLETED, FAILED, ABORTED}

\* ProgressKeys, in the order the orchestrator performs the steps
ProgressKeys == <<"saveWorkflow", "submitWorkflow", "workflowMovedToFinalState",
                  "savedMetadata", "copiedOutputs", "savedLogs">>

ProgressKeySet == {ProgressKeys[i] : i \in 1..Len(ProgressKeys)}

\* DatabaseManager.progress_has_completed: point lookup of a step's flag
progress_has_completed(p, key) == p[key]

\* DatabaseManager.progress_mark_completed: idempotent set-true
progress_mark_completed(p, key) == [p EXCEPT ![key] = TRUE]

\* DatabaseManager.add_meta_info: point upsert of an informational key
add_meta_info(i, key, value) == [i EXCEPT ![key] = value]

\* DatabaseManager.get_meta_info
get_meta_info(i, key) == i[key]

---------------------------------------------------------------------------
\* Strings the code takes apart or puts together are sequences of characters.

S_dot == <<".">>
S_slash == <<"/">>
S_validated == <<"v", "a", "l", "i", "d", "a", "t", "e", "d", "_">>
S_shard == <<"-", "s", "h", "a", "r", "d", "-">>
S_outputs == <<"o", "u", "t", "p", "u", "t", "s", "/">>
S_validation == <<"v", "a", "l", "i", "d", "a", "t", "i", "o", "n", "/">>

\* str.startswith
startswith(s, prefix) ==
    /\ Len(s) >= Len(prefix)
    /\ SubSeq(s, 1, Len(prefix)) = prefix

\* str.endswith
endswith(s, suffix) ==
    /\ Len(s) >= Len(suffix)
    /\ SubSeq(s, Len(s) - Len(suffix) + 1, Len(s)) = suffix

\* the positions of s that hold the character c
positions(s, c) == {i \in 1..Len(s) : s[i] = c}

Max(S) == CHOOSE x \in S : \A y \in S : y <= x

\* s.split(".")[-1]: what follows the last "." of s (all of s without one)
split_last(s) ==
    IF positions(s, ".") = {} THEN s
    ELSE SubSeq(s, Max(positions(s, ".")) + 1, Len(s))

\* shepherd.utils.get_extension: what follows the last "." of the path's
\* last component; empty (falsy, as None is) when there is none
get_extension(path) ==
    LET from == IF positions(path, "/") = {} THEN 1
                ELSE Max(positions(path, "/")) + 1
        last == SubSeq(path, from, Len(path))
    IN  IF positions(last, ".") = {} THEN <<>> ELSE split_last(last)

\* str(counter) of a shard index
Digits == <<"0", "1", "2", "3", "4", "5", "6", "7", "8", "9">>

RECURSIVE str_of_int(_)
str_of_int(n) ==
    IF n < 10 THEN <<Digits[n + 1]>>
    ELSE str_of_int(n \div 10) \o <<Digits[(n % 10) + 1]>>

\* TaskManager.get_task_path_for
get_task_path_for(outdir) ==
    outdir \o (IF endswith(outdir, S_slash) THEN <<>> ELSE S_slash)

\* the task's output root (TaskManager.path)
path == <<"t">>

---------------------------------------------------------------------------
\* Output values: what an engine binds to an output name.

StrV(s) == [t |-> "str", s |-> s, items |-> <<>>, secs |-> <<>>]
ListV(items) == [t |-> "list", s |-> <<>>, items |-> items, secs |-> <<>>]
CromwellFile(location, secondary_files) ==
    [t |-> "CromwellFile", s |-> location, items |-> <<>>, secs |-> secondary_files]
OtherV == [t |-> "other", s |-> <<>>, items |-> <<>>, secs |-> <<>>]

\* TaskManager.copy_output, copy_sharded_outputs and copy_cromwell_output:
\* the filescheme.cp_from calls they make, in order
RECURSIVE copy_output(_, _, _)
RECURSIVE copy_sharded_outputs(_, _, _, _)
RECURSIVE copy_secondaries(_, _, _, _)

copy_cromwell_output(output_dir, filename, out) ==
    copy_output(output_dir, filename, StrV(out.s))
        \o copy_secondaries(output_dir, filename, out.secs, 1)

copy_output(output_dir, filename, source) ==
    IF source.t = "list"
    THEN copy_sharded_outputs(output_dir, filename, source.items, 0)
    ELSE IF source.t = "CromwellFile"
    THEN copy_cromwell_output(output_dir, filename, source)
    ELSE IF source.t = "str"
    THEN LET ext == get_extension(source.s)
             extwdot == IF ext # <<>> THEN S_dot \o ext ELSE <<>>
         IN  <<[src |-> source.s, dst |-> output_dir \o filename \o extwdot]>>
    ELSE <<>>

\* copy_sharded_outputs that numbers the shards from 1
RECURSIVE copy_sharded_outputs_OneBased(_, _, _, _)
copy_sharded_outputs_OneBased(output_dir, filename, outs, counter) ==
    IF counter >= Len(outs) THEN <<>>
    ELSE LET sid == S_shard \o str_of_int(counter + 1)
         IN  copy_output(output_dir, filename \o sid, outs[counter + 1])
                 \o copy_sharded_outputs_OneBased(output_dir, filename, outs,
                                                  counter + 1)

\* the loop of copy_sharded_outputs from index counter on
copy_sharded_outputs(output_dir, filename, outs, counter) ==
    IF counter >= Len(outs) THEN <<>>
    ELSE LET sid == S_shard \o str_of_int(counter)
         IN  copy_output(output_dir, filename \o sid, outs[counter + 1])
                 \o copy_sharded_outputs(output_dir, filename, outs, counter + 1)

\* the loop of copy_cromwell_output over out.secondary_files from index i on
copy_secondaries(output_dir, filename, secs, i) ==
    IF i > Len(secs) THEN <<>>
    ELSE copy_output(output_dir, filename, StrV(secs[i].s))
             \o copy_secondaries(output_dir, filename, secs, i + 1)

Range(f) == {f[i] : i \in DOMAIN f}

---------------------------------------------------------------------------
\* The outputs an engine may report for a finished task: a sequence of
\* <<output name, value>> in the order of the mapping.

L_a == <<"/", "a", ".", "v", "c", "f">>
L_b == <<"/", "b">>
L_i == <<"/", "a", ".", "i", "d", "x">>
N_x == <<"x">>
N_y == <<"w", ".", "v", "a", "l", "i", "d", "a", "t", "e", "d", "_", "y">>
N_v == <<"v", "a", "l", "i", "d", "a", "t", "e", "d", "_", "v">>
N_w == <<"v", "a", "l", "i", "d", "a", "t", "e", "d", "_", ".", "w">>

OutputChoices ==
    { <<>>,
      << <<N_x, StrV(L_a)>> >>,
      << <<N_x, ListV(<<StrV(L_a), StrV(L_b)>>)>> >>,
      << <<N_x, CromwellFile(L_a, <<CromwellFile(L_i, <<>>)>>)>>,
         <<N_y, StrV(L_b)>> >>,
      << <<N_x, StrV(L_a)>>, <<N_y, OtherV>> >>,
      << <<N_x, ListV(<<StrV(L_b), OtherV>>)>> >>,
      << <<N_v, StrV(L_a)>>, <<N_w, StrV(L_b)>> >> }

---------------------------------------------------------------------------
\* The engine behind the Engine interface

\* start_from_paths: a new task, processing, with no outputs yet
start_from_paths(meta) == [status |-> PROCESSING, outputs |-> <<>>]

\* terminate_task that leaves a task already in a final state alone
terminate_task_KeepFinal(meta) ==
    IF meta.status \in FINAL_STATES THEN meta ELSE [meta EXCEPT !.status = ABORTED]

\* terminate_task that returns the status it found when that was final
terminate_task_ret_Found(meta) ==
    IF meta.status \in FINAL_STATES THEN meta.status ELSE ABORTED

\* Shell.terminate_task: the task's record, and the status returned
terminate_task(meta) == [meta EXCEPT !.status = ABORTED]
terminate_task_ret(meta) == ABORTED

\* Engine.metadata(...).status
metadata_status(meta) == meta.status

---------------------------------------------------------------------------
\* TaskManager

NoInfo ==
    [taskId |-> None, status |-> None, validating |-> FALSE,
     engineId |-> None, environment |-> None, engine_tid |-> 0]

\* TaskManager.get_engine_tid: the id in memory, else the persisted one
get_engine_tid == IF engine_tid = 0 THEN get_meta_info(info, "engine_tid") ELSE engine_tid

\* no local process: the engine is seen through the Engine interface only
NoShell ==
    /\ transcript = <<>>
    /\ program = <<>>
    /\ stdoutPipe = <<>>
    /\ stderrPipe = <<>>
    /\ process = "exited"
    /\ lpc = "none"
    /\ logger = [outputs |-> <<>>, has_error |-> FALSE,
                 should_terminate |-> FALSE, rc |-> None]
    /\ readOut = 0
    /\ readErr = 0
    /\ exitCalls = <<>>
    /\ logBuf = <<>>
    /\ logFile = <<>>
    /\ terminateRet = None
    /\ terminateFrom = None

Init ==
    /\ NoShell
    /\ engineKind \in {"cromwell", "shell"}
    /\ validating \in BOOLEAN
    /\ progress = [k \in ProgressKeySet |-> FALSE]
    /\ info = NoInfo
    /\ pc = "idle"
    /\ engine_tid = 0
    /\ outputs = <<>>
    /\ wfFiles = {}
    /\ metadataFile = FALSE
    /\ copied = {}
    /\ fetchedFinal = FALSE
    /\ runsStarted = 0
    /\ run = None
    /\ runsCompleted = [from_janis |-> 0, from_path |-> 0]
    /\ abortRet = None
    /\ outcome = None
    /\ wf_evaluate = None
    /\ startArgs = <<>>
    /\ metaFetches = 0
    /\ startCount = 0
    /\ taskmeta = [status |-> None, outputs |-> <<>>]

\* from_janis, lines 68-75: a TaskManager is built and the informational
\* keys are written
FromJanis ==
    /\ pc = "idle"
    /\ runsStarted < MaxRuns
    /\ runsStarted' = runsStarted + 1
    /\ engine_tid' = 0
    /\ info' = [info EXCEPT !.taskId = "tid", !.status = PROCESSING,
                            !.validating = validating, !.engineId = engineKind,
                            !.environment = "env"]
    /\ pc' = "prepare"
    /\ run' = "from_janis"
    /\ outcome' = "running"
    /\ metaFetches' = 0
    /\ wf_evaluate' = None
    /\ UNCHANGED <<shellVars, engineKind, validating, progress, outputs, wfFiles,
                   metadataFile, copied, fetchedFinal, runsCompleted, abortRet,
                   startCount, taskmeta,
                   startArgs>>

\* from_path followed by resume_if_possible: the environment comes from the
\* Progress Record, and the TaskManager cannot be built without one
FromPath ==
    /\ pc = "idle"
    /\ runsStarted < MaxRuns
    /\ get_meta_info(info, "environment") # None
    /\ runsStarted' = runsStarted + 1
    /\ engine_tid' = 0
    /\ pc' = "resume"
    /\ run' = "from_path"
    /\ outcome' = "running"
    /\ metaFetches' = 0
    /\ wf_evaluate' = None
    /\ UNCHANGED <<shellVars, engineKind, validating, progress, info, outputs, wfFiles,
                   metadataFile, copied, fetchedFinal, runsCompleted, abortRet,
                   startCount, taskmeta,
                   startArgs>>

\* what a statement that touches only the control state leaves alone
Frame ==
    UNCHANGED <<shellVars, engineKind, validating, info, engine_tid, outputs, wfFiles,
                metadataFile, copied, fetchedFinal, runsStarted, run, runsCompleted,
                abortRet, startCount, taskmeta,
                wf_evaluate, startArgs, metaFetches>>

\* a statement that marks a step completed
Mark(at, key, next) ==
    /\ pc = at
    /\ progress' = progress_mark_completed(progress, key)
    /\ pc' = next
    /\ UNCHANGED outcome
    /\ Frame

\* prepare_and_output_workflow_to_evaluate_if_required, lines 116-117: with
\* saveWorkflow marked the method returns what Logger.info returns, which is
\* no workflow, and from_janis (line 79) keeps that as wf_evaluate
PrepareCheck ==
    /\ pc = "prepare"
    /\ pc' = IF progress_has_completed(progress, "saveWorkflow")
             THEN "submit" ELSE "translate"
    /\ wf_evaluate' = IF progress_has_completed(progress, "saveWorkflow")
                      THEN None ELSE wf_evaluate
    /\ UNCHANGED <<shellVars, engineKind, validating, progress, info, engine_tid,
                   outputs, wfFiles, metadataFile, copied, fetchedFinal,
                   runsStarted, run, runsCompleted, abortRet, outcome, startArgs,
                   startCount, taskmeta, metaFetches>>

\* lines 121-129: the workflow is translated to disk
Translate ==
    /\ pc = "translate"
    /\ wfFiles' = wfFiles \cup {"workflow"}
    /\ pc' = IF validating THEN "translate_validation" ELSE "mark_saveWorkflow"
    /\ UNCHANGED <<shellVars, engineKind, validating, progress, info, engine_tid, outputs,
                   metadataFile, copied, fetchedFinal, runsStarted,
                   run, runsCompleted, abortRet, startCount, taskmeta,
                   outcome, wf_evaluate, startArgs, metaFetches>>

\* lines 134-148: the validation workflow is translated to disk
TranslateValidation ==
    /\ pc = "translate_validation"
    /\ wfFiles' = wfFiles \cup {"validation"}
    /\ pc' = "mark_saveWorkflow"
    /\ UNCHANGED <<shellVars, engineKind, validating, progress, info, engine_tid, outputs,
                   metadataFile, copied, fetchedFinal, runsStarted,
                   run, runsCompleted, abortRet, startCount, taskmeta,
                   outcome, wf_evaluate, startArgs, metaFetches>>

\* lines 133-138: the workflow that is evaluated
workflow_to_evaluate == IF validating THEN "validation" ELSE "workflow"

\* lines 150-151: the step is marked and the workflow to evaluate returned
MarkSaveWorkflow ==
    /\ pc = "mark_saveWorkflow"
    /\ progress' = progress_mark_completed(progress, "saveWorkflow")
    /\ wf_evaluate' = workflow_to_evaluate
    /\ pc' = "submit"
    /\ UNCHANGED <<shellVars, engineKind, validating, info, engine_tid, outputs,
                   wfFiles, metadataFile, copied, fetchedFinal, runsStarted, run,
                   runsCompleted, abortRet, outcome, startArgs, startCount,
                   taskmeta, metaFetches>>

\* SubmitCheck without the skip: the workflow is submitted whether or not
\* submitWorkflow is marked
SubmitCheck_NoSkip ==
    /\ pc = "submit"
    /\ pc' = "start"
    /\ UNCHANGED <<progress, outcome>>
    /\ Frame

\* submit_workflow_if_required, line 154
SubmitCheck ==
    /\ pc = "submit"
    /\ pc' = IF progress_has_completed(progress, "submitWorkflow")
             THEN "resume" ELSE "start"
    /\ UNCHANGED <<progress, outcome>>
    /\ Frame

\* lines 157-159: the paths handed to the engine, each the workflow directory
\* (left out) followed by the name the translator derives from the workflow
filenames(wf) == << <<wf, "workflow">>, <<wf, "inputs">>, <<wf, "dependencies">> >>

\* lines 157-162: the file names are derived from wf and the engine starts the
\* task and returns its id.  The translator's helpers are outside this code:
\* called without a workflow (wf_evaluate is None after a skipped prepare)
\* they raise, or they return names derived from no workflow
SubmitStart ==
    /\ pc = "start"
    /\ \/ /\ wf_evaluate = None
          /\ pc' = "idle"
          /\ outcome' = "raised"
          /\ UNCHANGED <<startCount, taskmeta, engine_tid, startArgs>>
       \/ /\ startCount' = startCount + 1
          /\ startArgs' = filenames(wf_evaluate)
          /\ taskmeta' = start_from_paths(taskmeta)
          /\ engine_tid' = startCount + 1
          /\ pc' = "persist_engine_tid"
          /\ UNCHANGED outcome
    /\ UNCHANGED <<shellVars, engineKind, validating, progress, info, outputs, wfFiles,
                   metadataFile, copied, fetchedFinal, runsStarted,
                   run, runsCompleted, abortRet, wf_evaluate, metaFetches>>

\* PersistEngineTid without the add_meta_info
PersistEngineTid_NotPersisted ==
    /\ pc = "persist_engine_tid"
    /\ pc' = "mark_submitWorkflow"
    /\ UNCHANGED <<progress, outcome>>
    /\ Frame

\* line 163: the engine's id of the task is persisted
PersistEngineTid ==
    /\ pc = "persist_engine_tid"
    /\ info' = add_meta_info(info, "engine_tid", engine_tid)
    /\ pc' = "mark_submitWorkflow"
    /\ UNCHANGED <<shellVars, engineKind, validating, progress, engine_tid, outputs,
                   wfFiles, metadataFile, copied, fetchedFinal, runsStarted,
                   run, runsCompleted, abortRet, startCount, taskmeta,
                   outcome, wf_evaluate, startArgs, metaFetches>>

\* line 166
MarkSubmitWorkflow == Mark("mark_submitWorkflow", "submitWorkflow", "resume")

\* ResumeCheck without the check of submitWorkflow
ResumeCheck_NoGuard ==
    /\ pc = "resume"
    /\ pc' = "wait"
    /\ UNCHANGED <<progress, outcome>>
    /\ Frame

\* resume_if_possible, lines 106-108: a task that was not submitted is
\* reported (Logger.critical) and the run ends
ResumeCheck ==
    /\ pc = "resume"
    /\ pc' = IF progress_has_completed(progress, "submitWorkflow")
             THEN "wait" ELSE "idle"
    /\ outcome' = IF progress_has_completed(progress, "submitWorkflow")
                  THEN outcome ELSE "critical"
    /\ UNCHANGED progress
    /\ Frame

\* WaitCheck that polls again although the task reached its final state
WaitCheck_Repolls ==
    /\ pc = "wait"
    /\ pc' = "poll"
    /\ UNCHANGED <<progress, outcome>>
    /\ Frame

\* wait_if_required, lines 214-218: a task already in its final state has its
\* metadata read once and printed
WaitCheck ==
    /\ pc = "wait"
    /\ metaFetches' = IF progress_has_completed(progress, "workflowMovedToFinalState")
                      THEN 1 ELSE 0
    /\ pc' = IF progress_has_completed(progress, "workflowMovedToFinalState")
             THEN "save_metadata" ELSE "poll"
    /\ engine_tid' = IF progress_has_completed(progress, "workflowMovedToFinalState")
                     THEN get_engine_tid ELSE engine_tid
    /\ UNCHANGED <<shellVars, engineKind, validating, progress, info, outputs, wfFiles,
                   metadataFile, copied, fetchedFinal, runsStarted,
                   run, runsCompleted, abortRet, startCount, taskmeta,
                   outcome, wf_evaluate, startArgs>>

\* lines 222-229: one turn of the polling loop, up to the sleep
Poll ==
    /\ pc = "poll"
    /\ metaFetches < MaxPolls
    /\ metaFetches' = metaFetches + 1
    /\ engine_tid' = get_engine_tid
    /\ LET status == metadata_status(taskmeta)
       IN  /\ fetchedFinal' = (fetchedFinal \/ status \in FINAL_STATES)
           /\ pc' = IF status \in FINAL_STATES THEN "mark_final" ELSE "sleep"
    /\ UNCHANGED <<shellVars, engineKind, validating, progress, info, outputs, wfFiles,
                   metadataFile, copied, runsStarted, run, runsCompleted, abortRet,
                   startCount, taskmeta,
                   outcome, wf_evaluate, startArgs>>

\* line 229: time.sleep(5), then the loop turns again
Sleep ==
    /\ pc = "sleep"
    /\ pc' = "poll"
    /\ UNCHANGED <<progress, outcome>>
    /\ Frame

\* line 231
MarkFinal == Mark("mark_final", "workflowMovedToFinalState", "save_metadata")

\* SaveMetadataCheck that skips the step for an engine it cannot archive
SaveMetadataCheck_Skips ==
    /\ pc = "save_metadata"
    /\ pc' = IF progress_has_completed(progress, "savedMetadata") THEN "copy_outputs"
             ELSE IF engineKind = "cromwell" THEN "write_metadata"
             ELSE "copy_outputs"
    /\ UNCHANGED <<progress, outcome>>
    /\ Frame

\* save_metadata_if_required, lines 169-179: only a Cromwell engine's metadata
\* can be saved, any other engine raises
SaveMetadataCheck ==
    /\ pc = "save_metadata"
    /\ pc' = IF progress_has_completed(progress, "savedMetadata") THEN "copy_outputs"
             ELSE IF engineKind = "cromwell" THEN "write_metadata"
             ELSE "idle"
    /\ outcome' = IF ~progress_has_completed(progress, "savedMetadata")
                     /\ engineKind # "cromwell"
                  THEN "raised" ELSE outcome
    /\ UNCHANGED progress
    /\ Frame

\* lines 174-176: the raw metadata is written to metadata/metadata.json
WriteMetadata ==
    /\ pc = "write_metadata"
    /\ metadataFile' = TRUE
    /\ engine_tid' = get_engine_tid
    /\ pc' = "mark_savedMetadata"
    /\ UNCHANGED <<shellVars, engineKind, validating, progress, info, outputs, wfFiles,
                   copied, fetchedFinal, runsStarted, run, runsCompleted, abortRet,
                   startCount, taskmeta,
                   outcome, wf_evaluate, startArgs, metaFetches>>

\* line 181
MarkSavedMetadata == Mark("mark_savedMetadata", "savedMetadata", "copy_outputs")

\* copy_outputs_if_required, line 184
CopyCheck ==
    /\ pc = "copy_outputs"
    /\ pc' = IF progress_has_completed(progress, "copiedOutputs")
             THEN "finish" ELSE "fetch_outputs"
    /\ UNCHANGED <<progress, outcome>>
    /\ Frame

\* lines 187-188: the engine's outputs are fetched; with none the method
\* returns
FetchOutputs ==
    /\ pc = "fetch_outputs"
    /\ engine_tid' = get_engine_tid
    /\ outputs' = taskmeta.outputs
    /\ pc' = IF taskmeta.outputs = <<>> THEN "finish" ELSE "copy_loop"
    /\ UNCHANGED <<shellVars, engineKind, validating, progress, info, wfFiles,
                   metadataFile, copied, fetchedFinal, runsStarted,
                   run, runsCompleted, abortRet, startCount, taskmeta,
                   outcome, wf_evaluate, startArgs, metaFetches>>

\* output_is_validating that looks at the start of the whole output name
output_is_validating_WholeName(is_validating, o) ==
    is_validating /\ startswith(o, S_validated)

\* line 193
output_is_validating(is_validating, o) ==
    is_validating /\ startswith(split_last(o), S_validated)

\* lines 190-198: the directory an output is staged to
output_directory(outname) ==
    LET is_validating == get_meta_info(info, "validating")
        outdir == get_task_path_for(path) \o S_outputs
        valdir == get_task_path_for(path) \o S_validation
    IN  IF output_is_validating(is_validating, outname) THEN valdir ELSE outdir

\* lines 196-208: one turn of the loop over the outputs, which stages the
\* next output or raises on a value it cannot handle
CopyNext ==
    /\ pc = "copy_loop"
    /\ outputs # <<>>
    /\ LET outname == Head(outputs)[1]
           o == Head(outputs)[2]
           od == output_directory(outname)
       IN  IF o.t \in {"list", "CromwellFile", "str"}
           THEN /\ copied' = copied \cup Range(copy_output(od, outname, o))
                /\ outputs' = Tail(outputs)
                /\ pc' = "copy_loop"
                /\ UNCHANGED outcome
           ELSE /\ pc' = "idle"
                /\ outcome' = "raised"
                /\ UNCHANGED <<copied, outputs>>
    /\ UNCHANGED <<shellVars, engineKind, validating, progress, info, engine_tid, wfFiles,
                   metadataFile, fetchedFinal, runsStarted, run, runsCompleted,
                   abortRet, startCount, taskmeta,
                   wf_evaluate, startArgs, metaFetches>>

\* the loop ends
CopyDone ==
    /\ pc = "copy_loop"
    /\ outputs = <<>>
    /\ pc' = "mark_copiedOutputs"
    /\ UNCHANGED <<progress, outcome>>
    /\ Frame

\* line 210
MarkCopiedOutputs == Mark("mark_copiedOutputs", "copiedOutputs", "finish")

\* resume_if_possible, line 113: the run is finished
Finish ==
    /\ pc = "finish"
    /\ runsCompleted' = [runsCompleted EXCEPT ![run] = @ + 1]
    /\ pc' = "idle"
    /\ outcome' = "finished"
    /\ UNCHANGED <<shellVars, engineKind, validating, progress, info, engine_tid, outputs,
                   wfFiles, metadataFile, copied, fetchedFinal, runsStarted, run,
                   abortRet, startCount, taskmeta,
                   wf_evaluate, startArgs, metaFetches>>

\* the orchestrator process is interrupted between two statements: what it
\* persisted stays
Interrupt ==
    /\ pc # "idle"
    /\ pc' = "idle"
    /\ outcome' = "interrupted"
    /\ UNCHANGED progress
    /\ Frame

\* TaskManager.abort, lines 323-324 (from another process on the same output
\* root): Engine.terminate_task is called and its result returned as a bool
Abort ==
    /\ get_meta_info(info, "environment") # None
    /\ taskmeta' = terminate_task(taskmeta)
    /\ abortRet' = IF terminate_task_ret(taskmeta) # None THEN "True" ELSE "False"
    /\ UNCHANGED <<shellVars, engineKind, validating, progress, info, pc, engine_tid,
                   outputs, wfFiles, metadataFile, copied, fetchedFinal,
                   runsStarted, run, runsCompleted, startCount,
                   outcome, wf_evaluate, startArgs, metaFetches>>

\* the engine finishes the task: it completes with some outputs, or fails
EngineFinish ==
    /\ taskmeta.status = PROCESSING
    /\ \/ \E outs \in OutputChoices :
            taskmeta' = [status |-> COMPLETED, outputs |-> outs]
       \/ taskmeta' = [taskmeta EXCEPT !.status = FAILED]
    /\ UNCHANGED <<shellVars, engineKind, validating, progress, info, pc, engine_tid,
                   outputs, wfFiles, metadataFile, copied, fetchedFinal,
                   runsStarted, run, runsCompleted, abortRet, startCount,
                   outcome, wf_evaluate, startArgs, metaFetches>>

Next ==
    \/ FromJanis
    \/ FromPath
    \/ PrepareCheck
    \/ Translate
    \/ TranslateValidation
    \/ MarkSaveWorkflow
    \/ SubmitCheck
    \/ SubmitStart
    \/ PersistEngineTid
    \/ MarkSubmitWorkflow
    \/ ResumeCheck
    \/ WaitCheck
    \/ Poll
    \/ Sleep
    \/ MarkFinal
    \/ SaveMetadataCheck
    \/ WriteMetadata
    \/ MarkSavedMetadata
    \/ CopyCheck
    \/ FetchOutputs
    \/ CopyNext
    \/ CopyDone
    \/ MarkCopiedOutputs
    \/ Finish
    \/ Interrupt
    \/ Abort
    \/ EngineFinish

Spec == Init /\ [][Next]_vars

---------------------------------------------------------------------------
\* ShellLogger: the thread that tails the local process

\* Bounds of the model: the lines a process writes, the lines a pipe holds
MaxLines == 3
PipeCap == 2

S_newline == <<"\n">>
Whitespace == {" ", "\t", "\n", "\r"}
Uppercase == <<"A", "B", "C", "D", "E", "F", "G", "H", "I", "J", "K", "L", "M",
               "N", "O", "P", "Q", "R", "S", "T", "U", "V", "W", "X", "Y", "Z">>
Lowercase == <<"a", "b", "c", "d", "e", "f", "g", "h", "i", "j", "k", "l", "m",
               "n", "o", "p", "q", "r", "s", "t", "u", "v", "w", "x", "y", "z">>

\* str.rstrip
RECURSIVE rstrip(_)
rstrip(s) ==
    IF s # <<>> /\ s[Len(s)] \in Whitespace
    THEN rstrip(SubSeq(s, 1, Len(s) - 1)) ELSE s

\* str.lower
lower(s) ==
    [i \in 1..Len(s) |->
        IF \E k \in DOMAIN Uppercase : Uppercase[k] = s[i]
        THEN Lowercase[CHOOSE k \in DOMAIN Uppercase : Uppercase[k] = s[i]]
        ELSE s[i]]

\* sub in s
contains(s, sub) ==
    \E i \in 1..(Len(s) - Len(sub) + 1) : SubSeq(s, i, i + Len(sub) - 1) = sub

\* ShellLogger.error_keywords
error_keywords ==
    << <<"e", "r", "r", "o", "r">>,
       <<"f", "a", "i", "l">>,
       <<"e", "x", "c", "e", "p", "t", "i", "o", "n">> >>

\* lines 92-94: some keyword is in line.lower()
has_keyword(line) ==
    \E k \in DOMAIN error_keywords : contains(lower(line), error_keywords[k])

\* json.loads, for the lines of the model: an object "{...}" parses to its
\* members (here their text), any other line raises
json_loads(line) ==
    IF Len(line) >= 2 /\ line[1] = "{" /\ line[Len(line)] = "}"
    THEN [ok |-> TRUE, value |-> SubSeq(line, 2, Len(line) - 1)]
    ELSE [ok |-> FALSE, value |-> <<>>]

\* the lines a process may write (without their newline)
OutLines ==
    { <<>>,
      <<"{", "a", "}">>,
      <<"{", "b", "}">>,
      <<"f", "a", "i", "l">> }
ErrLines ==
    { <<>>,
      <<"o", "k">>,
      <<"F", "a", "i", "l", "e", "d">>,
      <<"a", "n", " ", "E", "R", "R", "O", "R", " ">> }

Writes == ({"out"} \X OutLines) \cup ({"err"} \X ErrLines)

Transcripts == UNION {[1..n -> Writes] : n \in 0..MaxLines}

\* the lines of a transcript written to a stream
LinesOf(tr, stream) == {i \in DOMAIN tr : tr[i][1] = stream}

\* lines 151-180: Shell.start_from_paths has spawned the process and started
\* the ShellLogger thread, which set outputs = {} (line 37)
ShellInit ==
    /\ engineKind = "shell"
    /\ validating = FALSE
    /\ progress = [k \in ProgressKeySet |-> FALSE]
    /\ info = NoInfo
    /\ pc = "idle"
    /\ engine_tid = 0
    /\ outputs = <<>>
    /\ wfFiles = {}
    /\ metadataFile = FALSE
    /\ copied = {}
    /\ fetchedFinal = FALSE
    /\ runsStarted = 0
    /\ run = None
    /\ runsCompleted = [from_janis |-> 0, from_path |-> 0]
    /\ abortRet = None
    /\ outcome = None
    /\ wf_evaluate = None
    /\ startArgs = <<>>
    /\ metaFetches = 0
    /\ startCount = 1
    /\ taskmeta = start_from_paths([status |-> None, outputs |-> <<>>])
    /\ transcript \in Transcripts
    /\ program = transcript
    /\ stdoutPipe = <<>>
    /\ stderrPipe = <<>>
    /\ process = "running"
    /\ lpc = "stdout"
    /\ logger = [outputs |-> <<>>, has_error |-> FALSE,
                 should_terminate |-> FALSE, rc |-> None]
    /\ readOut = 0
    /\ readErr = 0
    /\ exitCalls = <<>>
    /\ logBuf = <<>>
    /\ logFile = <<>>
    /\ terminateRet = None
    /\ terminateFrom = None

\* the process writes its next line, when the pipe has room for it
ProcWrite ==
    /\ process = "running"
    /\ program # <<>>
    /\ LET stream == Head(program)[1]
           line == Head(program)[2]
       IN  \/ /\ stream = "out"
              /\ Len(stdoutPipe) < PipeCap
              /\ stdoutPipe' = Append(stdoutPipe, line)
              /\ UNCHANGED stderrPipe
           \/ /\ stream = "err"
              /\ Len(stderrPipe) < PipeCap
              /\ stderrPipe' = Append(stderrPipe, line)
              /\ UNCHANGED stdoutPipe
    /\ program' = Tail(program)
    /\ UNCHANGED <<orchVars, taskmeta, transcript, process, lpc, logger,
                   readOut, readErr, exitCalls, logBuf, logFile, terminateRet,
                   terminateFrom>>

\* the process exits, which closes its ends of both pipes
ProcExit ==
    /\ process = "running"
    /\ program = <<>>
    /\ process' = "exited"
    /\ UNCHANGED <<orchVars, taskmeta, transcript, program, stdoutPipe,
                   stderrPipe, lpc, logger, readOut, readErr, exitCalls, logBuf,
                   logFile, terminateRet, terminateFrom>>

\* readline returns when the pipe holds a line or its writer is gone
can_read(pipe) == pipe # <<>> \/ process = "exited"

\* readline: the next line with its newline, b"" at the end of the stream
readline(pipe) == IF pipe # <<>> THEN Head(pipe) \o S_newline ELSE <<>>

\* process.poll()
poll == IF process = "exited" THEN "0" ELSE None

\* logfp.write(line + "\n"), and with should_write the flush and fsync
log_write(line, should_write) ==
    IF should_write
    THEN /\ logFile' = logFile \o Append(logBuf, line)
         /\ logBuf' = <<>>
    ELSE /\ logBuf' = Append(logBuf, line)
         /\ UNCHANGED logFile

\* logfp.flush() and os.fsync
log_flush ==
    /\ logFile' = logFile \o logBuf
    /\ logBuf' = <<>>

\* lines 41-71: one turn of the loop over standard output
LoggerStdout ==
    /\ lpc = "stdout"
    /\ can_read(stdoutPipe)
    /\ stdoutPipe' = IF stdoutPipe # <<>> THEN Tail(stdoutPipe) ELSE stdoutPipe
    /\ readOut' = IF stdoutPipe # <<>> THEN readOut + 1 ELSE readOut
    /\ LET line == rstrip(readline(stdoutPipe))
           parsed == json_loads(line)
           outs == IF parsed.ok THEN parsed.value ELSE logger.outputs
       IN  IF logger.should_terminate
           THEN /\ lpc' = "returned"
                /\ UNCHANGED <<logger, logBuf, logFile>>
           ELSE IF line = <<>> /\ poll # None
           THEN /\ logger' = [logger EXCEPT !.outputs = outs, !.rc = poll]
                /\ lpc' = "stderr"
                /\ UNCHANGED <<logBuf, logFile>>
           ELSE /\ logger' = [logger EXCEPT !.outputs = outs]
                /\ \E should_write \in BOOLEAN : log_write(line, should_write)
                /\ lpc' = "stdout"
    /\ UNCHANGED <<orchVars, taskmeta, transcript, program, stderrPipe, process,
                   readErr, exitCalls, terminateRet, terminateFrom>>

\* lines 76-96: one turn of the loop over standard error
LoggerStderr ==
    /\ lpc = "stderr"
    /\ can_read(stderrPipe)
    /\ stderrPipe' = IF stderrPipe # <<>> THEN Tail(stderrPipe) ELSE stderrPipe
    /\ readErr' = IF stderrPipe # <<>> THEN readErr + 1 ELSE readErr
    /\ LET line == rstrip(readline(stderrPipe))
       IN  IF logger.should_terminate
           THEN /\ lpc' = "returned"
                /\ UNCHANGED logger
           ELSE IF line = <<>>
           THEN IF poll # None
                THEN /\ logger' = [logger EXCEPT !.rc = poll]
                     /\ lpc' = "exit"
                ELSE /\ lpc' = "stderr"
                     /\ UNCHANGED logger
           ELSE /\ logger' = [logger EXCEPT
                                !.has_error = logger.has_error \/ has_keyword(line)]
                /\ lpc' = "stderr"
    /\ UNCHANGED <<orchVars, taskmeta, transcript, program, stdoutPipe, process,
                   readOut, exitCalls, logBuf, logFile, terminateRet,
                   terminateFrom>>

\* ProcessLogger.terminate sets the flag (and flushes the log: see log_flush
\* where it is called)
terminate(lg) == [lg EXCEPT !.should_terminate = TRUE]

\* lines 107-110: the status handed to the exit callback
exit_status(has_error) == IF has_error THEN FAILED ELSE COMPLETED

\* lines 98-112, and Shell.task_did_exit lines 248-250: the log is flushed
\* (lines 102-103 with has_error, and by terminate() on line 105) and the
\* exit callback called, which sets the task's status
LoggerExit ==
    /\ lpc = "exit"
    /\ logger' = terminate(IF logger.has_error
                           THEN [logger EXCEPT !.rc = poll] ELSE logger)
    /\ log_flush
    /\ exitCalls' = Append(exitCalls, exit_status(logger.has_error))
    /\ taskmeta' = [taskmeta EXCEPT !.status = exit_status(logger.has_error)]
    /\ lpc' = "did_exit"
    /\ UNCHANGED <<orchVars, transcript, program, stdoutPipe, stderrPipe,
                   process, readOut, readErr, terminateRet, terminateFrom>>

\* Shell.task_did_exit, lines 251-254: the outputs are published
LoggerDidExit ==
    /\ lpc = "did_exit"
    /\ taskmeta' = [taskmeta EXCEPT !.outputs = logger.outputs]
    /\ lpc' = "done"
    /\ UNCHANGED <<orchVars, transcript, program, stdoutPipe, stderrPipe,
                   process, logger, readOut, readErr, exitCalls, logBuf,
                   logFile, terminateRet, terminateFrom>>

\* the supervisor is cancelled from outside: ProcessLogger.terminate
Cancel ==
    /\ lpc \in {"stdout", "stderr", "exit"}
    /\ ~logger.should_terminate
    /\ logger' = terminate(logger)
    /\ log_flush
    /\ UNCHANGED <<orchVars, taskmeta, transcript, program, stdoutPipe,
                   stderrPipe, process, lpc, readOut, readErr, exitCalls,
                   terminateRet, terminateFrom>>

\* lines 114-117: a KeyboardInterrupt ends run
KeyboardInterrupt ==
    /\ lpc \in {"stdout", "stderr", "exit", "did_exit"}
    /\ logger' = [logger EXCEPT !.should_terminate = TRUE]
    /\ lpc' = "interrupted"
    /\ UNCHANGED <<orchVars, taskmeta, transcript, program, stdoutPipe,
                   stderrPipe, process, readOut, readErr, exitCalls, logBuf,
                   logFile, terminateRet, terminateFrom>>

\* Shell.terminate_task, lines 230-233, called from another thread;
\* stop_engine (lines 148-149) does nothing
TerminateTask ==
    /\ terminateFrom' = taskmeta.status
    /\ taskmeta' = terminate_task(taskmeta)
    /\ terminateRet' = terminate_task_ret(taskmeta)
    /\ UNCHANGED <<orchVars, transcript, program, stdoutPipe, stderrPipe,
                   process, lpc, logger, readOut, readErr, exitCalls, logBuf,
                   logFile>>

ShellNext ==
    \/ ProcWrite
    \/ ProcExit
    \/ LoggerStdout
    \/ LoggerStderr
    \/ LoggerExit
    \/ LoggerDidExit
    \/ Cancel
    \/ KeyboardInterrupt
    \/ TerminateTask

ShellSpec == ShellInit /\ [][ShellNext]_vars

---------------------------------------------------------------------------
\* The steps of the Progress Record in the order claimed for them
StepOrder == <<"saveWorkflow", "submitWorkflow", "workflowMovedToFinalState",
               "savedMetadata", "copiedOutputs">>

\* the locations an output value holds
RECURSIVE Locations(_)
Locations(v) ==
    IF v.t = "str" THEN {v.s}
    ELSE IF v.t = "list" THEN UNION {Locations(v.items[i]) : i \in DOMAIN v.items}
    ELSE IF v.t = "CromwellFile"
    THEN {v.s} \cup UNION {Locations(v.secs[i]) : i \in DOMAIN v.secs}
    ELSE {}

\* C1: two runs of from_janis (each followed by resume_if_possible) to
\* completion against the same output root, and no other run, call the
\* engine's start exactly once.
C1_TwoRunsStartOnce ==
    (runsStarted = 2 /\ runsCompleted.from_janis = 2) => startCount = 1

C1_Witness ==
    /\ runsStarted = 2
    /\ runsCompleted.from_janis = 2
    /\ progress["submitWorkflow"]

\* C2: in every reachable Progress Record the completed steps are a prefix of
\* saveWorkflow, submitWorkflow, workflowMovedToFinalState, savedMetadata,
\* copiedOutputs; so copiedOutputs implies submitWorkflow and
\* workflowMovedToFinalState.
C2_StepsArePrefix ==
    /\ \A i, j \in 1..Len(StepOrder) :
            (i < j /\ progress[StepOrder[j]]) => progress[StepOrder[i]]
    /\ progress["copiedOutputs"] =>
            (progress["submitWorkflow"] /\ progress["workflowMovedToFinalState"])

C2_Witness ==
    /\ progress["copiedOutputs"]
    /\ runsStarted = 3
    /\ pc = "idle"

\* C3: in every reachable state a completed flag is set only if its side
\* effect has finished: the workflow files were written, the engine was
\* started and its id persisted, a terminal status was fetched, the metadata
\* document was written, every location of every output was copied.
C3_FlagsFollowEffects ==
    /\ progress["saveWorkflow"] =>
            /\ "workflow" \in wfFiles
            /\ validating => "validation" \in wfFiles
    /\ progress["submitWorkflow"] =>
            /\ startCount >= 1
            /\ get_meta_info(info, "engine_tid") = startCount
    /\ progress["workflowMovedToFinalState"] => fetchedFinal
    /\ progress["savedMetadata"] => metadataFile
    /\ progress["copiedOutputs"] =>
            \A k \in DOMAIN taskmeta.outputs :
                \A l \in Locations(taskmeta.outputs[k][2]) :
                    \E c \in copied : c.src = l

C3_Witness ==
    /\ \A k \in Range(StepOrder) : progress[k]
    /\ Cardinality(copied) >= 2
    /\ validating

C10_AbortRecordsAborted ==
    [][Abort => /\ taskmeta' = terminate_task(taskmeta)
                /\ get_meta_info(info', "status") = ABORTED
                /\ progress' = progress]_vars

\* C5: the status passed to the exit callback is failed if some line the
\* process wrote to standard error contains "error", "fail" or "exception"
\* (whatever the case), and completed if none does.
C5_StatusFromStderr ==
    \A n \in DOMAIN exitCalls :
        exitCalls[n] =
            IF \E i \in LinesOf(transcript, "err") : has_keyword(transcript[i][2])
            THEN FAILED ELSE COMPLETED

\* C6: the exit callback fires at most once, and only after every line of
\* standard output and every line of standard error was read.
C6_ExitOnceAfterDrain ==
    /\ Len(exitCalls) <= 1
    /\ exitCalls # <<>> =>
            /\ readOut = Cardinality(LinesOf(transcript, "out"))
            /\ readErr = Cardinality(LinesOf(transcript, "err"))

\* C7: once the status of the local-process engine's task is completed,
\* failed or aborted, it never changes again.
C7_FinalStatusStays ==
    [][taskmeta.status \in FINAL_STATES => taskmeta'.status = taskmeta.status]_vars

\* C8: Shell.terminate_task leaves the task's status aborted and returns
\* aborted, whatever the status was before.
C8_TerminateAborts ==
    [][TerminateTask => (taskmeta'.status = ABORTED /\ terminateRet' = ABORTED)]_vars

C8_Witness ==
    /\ terminateFrom = FAILED
    /\ terminateRet = ABORTED
    /\ taskmeta.status = ABORTED
    /\ process = "exited"

LastStdoutLine ==
    transcript[Max(LinesOf(transcript, "out"))][2]

\* C11: once the exit callback has fired, the flushed log file contains the
\* last line the process wrote to standard output (stated here for a last
\* line that is not blank), whether or not a timed flush followed its append
\* and whether the status is completed or failed.
C11_LogHoldsLastLine ==
    (exitCalls # <<>> /\ LinesOf(transcript, "out") # {} /\ LastStdoutLine # <<>>)
        => \E k \in DOMAIN logFile : logFile[k] = LastStdoutLine

\* C12: resume_if_possible on a task whose submitWorkflow step is not marked
\* reports the error (Logger.critical) and the run ends there: no later step
\* is entered (no poll, no fetch of outputs), no metadata or output file is
\* written, and no flag or informational key of the Progress Record changes.
C12_ResumeNotSubmitted ==
    [][(/\ pc = "resume"
        /\ ~progress_has_completed(progress, "submitWorkflow")
        /\ pc' # pc
        /\ outcome' # "interrupted")
            => /\ pc' = "idle"
               /\ outcome' = "critical"
               /\ UNCHANGED <<progress, info, metadataFile, copied, wfFiles,
                              outputs, fetchedFinal, runsCompleted, taskmeta,
                              startCount>>]_vars

C12_Witness ==
    /\ outcome = "critical"
    /\ run = "from_path"
    /\ pc = "idle"
    /\ progress["saveWorkflow"]
    /\ ~progress["submitWorkflow"]

\* C13: with an engine that is not the remote-server (Cromwell) variant,
\* save_metadata_if_required raises instead of skipping: savedMetadata stays
\* unset and no metadata document is written, and the run ends there, so
\* copy_outputs_if_required is not entered, nothing is staged and
\* copiedOutputs stays unset.
C13_SaveMetadataFailsLoudly ==
    /\ [](engineKind # "cromwell" =>
            /\ ~progress["savedMetadata"]
            /\ ~progress["copiedOutputs"]
            /\ ~metadataFile
            /\ copied = {}
            /\ pc \notin {"write_metadata", "mark_savedMetadata", "copy_outputs",
                          "fetch_outputs", "copy_loop", "mark_copiedOutputs",
                          "finish"})
    /\ [][(/\ pc = "save_metadata"
           /\ engineKind # "cromwell"
           /\ pc' # pc
           /\ outcome' # "interrupted")
               => (pc' = "idle" /\ outcome' = "raised")]_vars

C13_Witness ==
    /\ engineKind = "shell"
    /\ outcome = "raised"
    /\ pc = "idle"
    /\ progress["workflowMovedToFinalState"]
    /\ ~progress["savedMetadata"]
    /\ taskmeta.outputs # <<>>

\* an output value holds, at some depth of its sequences, a value that is
\* neither a location string, nor a sequence, nor a CromwellFile
RECURSIVE has_unsupported_shape(_)
has_unsupported_shape(v) ==
    IF v.t = "list"
    THEN \E i \in DOMAIN v.items : has_unsupported_shape(v.items[i])
    ELSE v.t \notin {"str", "CromwellFile"}

\* C14: an output value of unsupported shape, bound to an output name or
\* nested inside a sharded sequence, makes copy_outputs_if_required fail, so
\* copiedOutputs is never marked for outputs that hold one.
C14_UnsupportedShapeFails ==
    progress["copiedOutputs"] =>
        \A k \in DOMAIN taskmeta.outputs :
            ~has_unsupported_shape(taskmeta.outputs[k][2])

\* lines 191-192: the two directories outputs are staged to
OutputsDir == get_task_path_for(path) \o S_outputs
ValidationDir == get_task_path_for(path) \o S_validation

\* t is the part of name after its last "." (all of name when it has none)
is_after_last_dot(name, t) ==
    /\ endswith(name, t)
    /\ positions(t, ".") = {}
    /\ \/ t = name
       \/ name[Len(name) - Len(t)] = "."

\* the output name's part after its last "." starts with "validated_"
has_validated_suffix(name) ==
    \E n \in 0..Len(name) :
        LET t == SubSeq(name, Len(name) - n + 1, Len(name))
        IN  is_after_last_dot(name, t) /\ startswith(t, S_validated)

\* C15: each output staged by copy_outputs_if_required goes under the
\* validation directory if the task's validating flag is set and the part of
\* the output's name after its last "." starts with "validated_", and under
\* the outputs directory otherwise; a task that is not validating never
\* writes under the validation directory.
C15_ValidationRouting ==
    /\ [][(pc = "copy_loop" /\ outputs # <<>> /\ outputs' = Tail(outputs)) =>
            LET outname == Head(outputs)[1]
                to_validation == /\ get_meta_info(info, "validating")
                                 /\ has_validated_suffix(outname)
                dir == IF to_validation THEN ValidationDir ELSE OutputsDir
            IN  \A c \in copied' \ copied : startswith(c.dst, dir \o outname)]_vars
    /\ [](~validating => \A c \in copied : ~startswith(c.dst, ValidationDir))

C15_Witness ==
    /\ validating
    /\ progress["copiedOutputs"]
    /\ \E c \in copied : startswith(c.dst, ValidationDir \o N_v)
    /\ \E c \in copied : startswith(c.dst, OutputsDir \o N_w)

---------------------------------------------------------------------------
\* Output staging on its own: copy_outputs_if_required from its loop on
\* (line 196), for outputs made of locations and sequences of them.

\* Bound of the model: the elements a sharded sequence holds
MaxShards == 2

StageScalars == {StrV(L_a), StrV(L_b)}

SeqsOver(S) == UNION {[1..n -> S] : n \in 0..MaxShards}

\* sequences of locations, and sequences of locations and such sequences
StageShards == {ListV(q) : q \in SeqsOver(StageScalars)}
StageNested == {ListV(q) : q \in SeqsOver(StageScalars \cup StageShards)}

StageValues == StageScalars \cup StageNested

\* a completed task whose outputs were fetched (line 187): one output, or two
StageInit ==
    /\ NoShell
    /\ engineKind = "cromwell"
    /\ validating = FALSE
    /\ progress = [k \in ProgressKeySet |->
                      k \in {"saveWorkflow", "submitWorkflow",
                             "workflowMovedToFinalState", "savedMetadata"}]
    /\ info = [taskId |-> "tid", status |-> PROCESSING, validating |-> FALSE,
               engineId |-> "cromwell", environment |-> "env", engine_tid |-> 1]
    /\ pc = "copy_loop"
    /\ engine_tid = 1
    /\ \E v \in StageValues :
          \/ outputs = << <<N_x, v>> >>
          \/ outputs = << <<N_y, v>>, <<N_x, StrV(L_b)>> >>
    /\ taskmeta = [status |-> COMPLETED, outputs |-> outputs]
    /\ wfFiles = {"workflow"}
    /\ metadataFile = TRUE
    /\ copied = {}
    /\ fetchedFinal = TRUE
    /\ runsStarted = 1
    /\ run = "from_janis"
    /\ runsCompleted = [from_janis |-> 0, from_path |-> 0]
    /\ abortRet = None
    /\ outcome = "running"
    /\ wf_evaluate = "workflow"
    /\ startArgs = filenames("workflow")
    /\ metaFetches = 1
    /\ startCount = 1

StageNext ==
    \/ CopyNext
    \/ CopyDone
    \/ MarkCopiedOutputs
    \/ Finish

StageSpec == StageInit /\ [][StageNext]_vars


\* the 0-based index paths that lead to the locations of an output value
RECURSIVE leaf_paths(_)
leaf_paths(v) ==
    IF v.t = "str" THEN {<<>>}
    ELSE IF v.t = "list"
    THEN UNION {{<<i - 1>> \o p : p \in leaf_paths(v.items[i])} : i \in DOMAIN v.items}
    ELSE {}

\* the value an index path leads to
RECURSIVE leaf_at(_, _)
leaf_at(v, p) ==
    IF p = <<>> THEN v ELSE leaf_at(v.items[Head(p) + 1], Tail(p))

\* "-shard-i" for each index i of a path
RECURSIVE shard_suffix(_)
shard_suffix(p) ==
    IF p = <<>> THEN <<>>
    ELSE S_shard \o str_of_int(Head(p)) \o shard_suffix(Tail(p))

\* the copies claimed for an output: one for each location, to directory +
\* name + the shard suffixes of its path + "." + the source's extension
staged_as_claimed(dir, name, v) ==
    {LET s == leaf_at(v, p).s
         ext == get_extension(s)
     IN  [src |-> s,
          dst |-> dir \o name \o shard_suffix(p)
                      \o (IF ext = <<>> THEN <<>> ELSE S_dot \o ext)]
     : p \in leaf_paths(v)}

\* C16: staging copies a location to directory + output name + "." + the
\* source's extension (nothing appended without one) and element i of a
\* sequence under the name followed by "-shard-i", from 0 and at every depth;
\* it makes exactly one copy for each location, so n for a sequence of n
\* locations.  The outputs still to stage would be copied so, and those the
\* loop has passed were.
C16_StagingNames ==
    /\ \A k \in DOMAIN outputs :
          LET name == outputs[k][1]
              v == outputs[k][2]
              ops == copy_output(OutputsDir, name, v)
          IN  /\ Len(ops) = Cardinality(leaf_paths(v))
              /\ Range(ops) = staged_as_claimed(OutputsDir, name, v)
    /\ LET all == taskmeta.outputs
           done == Len(all) - Len(outputs)
       IN  copied = UNION {staged_as_claimed(OutputsDir, all[k][1], all[k][2])
                             : k \in 1..done}

C16_Witness ==
    /\ progress["copiedOutputs"]
    /\ Cardinality(copied) = 2
    /\ [src |-> L_b, dst |-> OutputsDir \o N_x \o S_shard \o <<"0">>] \in copied
    /\ [src |-> L_a,
        dst |-> OutputsDir \o N_x \o S_shard \o <<"1">> \o S_shard \o <<"0">>
                    \o <<".", "v", "c", "f">>] \in copied


\* C17: for either engine variant, a run of resume_if_possible on a submitted
\* task whose engine reported a terminal status marks
\* workflowMovedToFinalState, savedMetadata and copiedOutputs and finishes.
\* Stated over the runs that have ended by themselves (not interrupted) after
\* the terminal status was fetched, for outputs of supported shapes: such a
\* run has finished with the three steps marked.
C17_ResumeRunsToTheEnd ==
    (/\ pc = "idle"
     /\ outcome \in {"finished", "raised"}
     /\ progress["submitWorkflow"]
     /\ progress["workflowMovedToFinalState"]
     /\ \A k \in DOMAIN taskmeta.outputs :
            ~has_unsupported_shape(taskmeta.outputs[k][2]))
        => /\ outcome = "finished"
           /\ progress["savedMetadata"]
           /\ progress["copiedOutputs"]


\* C18: a from_janis run that finds saveWorkflow marked and submitWorkflow not
\* (an earlier run was interrupted between the two marks) skips prepare and
\* calls the engine's start with the paths of the workflow prepared before;
\* here, the statement that follows the skipped prepare and the check of
\* submitWorkflow starts the engine with those paths.
C18_RerunStartsPrepared ==
    [][(/\ pc = "start"
        /\ run = "from_janis"
        /\ wf_evaluate = None
        /\ pc' # pc
        /\ outcome' # "interrupted")
            => /\ pc' = "persist_engine_tid"
               /\ startCount' = startCount + 1
               /\ startArgs' = filenames(workflow_to_evaluate)]_vars


\* C19: when copy_outputs_if_required has returned without an error (the run
\* is at the statement after it, line 113), copiedOutputs is marked, whatever
\* output mapping the engine returned, the empty one included.
C19_CopyReturnsMarked ==
    pc = "finish" => progress["copiedOutputs"]


\* C20: with workflowMovedToFinalState marked, wait_if_required does not enter
\* its polling loop (it is never at the poll, the sleep or the mark), reads the
\* engine's metadata at most once and leaves the Progress Record as it is;
\* with the flag not marked it goes on only after a poll that read a terminal
\* status, sleeps and polls again after any other status, and marks the flag
\* only then.
C20_WaitPollsOnlyWhenNeeded ==
    /\ [](progress["workflowMovedToFinalState"] =>
              pc \notin {"poll", "sleep", "mark_final"})
    /\ [][(/\ pc = "wait"
           /\ progress["workflowMovedToFinalState"]
           /\ pc' # pc
           /\ outcome' # "interrupted")
              => /\ pc' = "save_metadata"
                 /\ metaFetches' <= 1
                 /\ UNCHANGED <<progress, info>>]_vars
    /\ [][(pc = "poll" /\ pc' # pc /\ outcome' # "interrupted")
              => /\ pc' = IF metadata_status(taskmeta) \in FINAL_STATES
                          THEN "mark_final" ELSE "sleep"
                 /\ UNCHANGED <<progress, info>>]_vars
    /\ [][(pc = "sleep" /\ pc' # pc /\ outcome' # "interrupted")
              => pc' = "poll"]_vars
    /\ [][(pc # "mark_final" /\ pc' = "mark_final")
              => (pc = "poll" /\ metadata_status(taskmeta) \in FINAL_STATES)]_vars
    /\ [][(~progress["workflowMovedToFinalState"]
           /\ progress'["workflowMovedToFinalState"])
              => (pc = "mark_final" /\ pc' = "save_metadata")]_vars

C20_Witness ==
    /\ pc = "save_metadata"
    /\ progress["savedMetadata"]
    /\ metaFetches = 1
    /\ run = "from_path"


\* C21: Shell.terminate_task sets the supervisor's should_terminate flag, so
\* that the supervisor, at the next line it reads after the abort, returns
\* without going on to the exit callback (which leaves the status aborted).
C21_TerminateStopsSupervisor ==
    /\ [][TerminateTask => logger'.should_terminate]_vars
    /\ [][(taskmeta.status = ABORTED /\ (LoggerStdout \/ LoggerStderr))
              => lpc' = "returned"]_vars


\* the lines of standard output that parse as JSON
json_lines ==
    {i \in LinesOf(transcript, "out") : json_loads(rstrip(transcript[i][2])).ok}

\* the payload of the last of them, the empty mapping without any
last_json_payload ==
    IF json_lines = {} THEN <<>>
    ELSE json_loads(rstrip(transcript[Max(json_lines)][2])).value

\* C22: the outputs the supervisor holds when the exit callback is called are
\* the payload of the last line of standard output that parses as JSON (it
\* replaces the earlier ones), and the empty mapping if no line parsed.
C22_LastJsonWins ==
    exitCalls # <<>> => logger.outputs = last_json_payload


\* the process is blocked writing to a full standard-error pipe
process_blocked_on_stderr ==
    /\ process = "running"
    /\ program # <<>>
    /\ Head(program)[1] = "err"
    /\ Len(stderrPipe) >= PipeCap

\* the supervisor is blocked in readline on standard output
logger_blocked_on_stdout ==
    /\ lpc = "stdout"
    /\ ~can_read(stdoutPipe)

\* C23: with bounded pipes, no state is reachable in which the process is
\* blocked writing to a full standard-error pipe while the supervisor is
\* blocked reading standard output (from which neither would move again, and
\* the exit callback would never fire).
C23_NoPipeDeadlock ==
    ~(process_blocked_on_stderr /\ logger_blocked_on_stdout)


\* C24: whenever the task's status is the terminal status the exit callback
\* set (what poll_task and metadata report), the task's outputs (what
\* outputs_task reads) are those the supervisor parsed.
C24_StatusAfterOutputs ==
    (/\ exitCalls # <<>>
     /\ metadata_status(taskmeta) = exitCalls[Len(exitCalls)])
        => taskmeta.outputs = logger.outputs

===========================================================================
